---- MODULE Spec2Model ----
(***************************************************************************)
(* Model of app.py, the European Capitals Satellite Viewer.                *)
(*                                                                         *)
(* One Streamlit process: every user interaction re-executes the script    *)
(* top to bottom.  The state is the process-wide memo of                   *)
(* initialize_ee_session, the temporary credential file on disk, the       *)
(* remote scene archive, the widget values, the script's position and    *)
(* local variables, and the elements the current run has rendered.         *)
(***************************************************************************)
EXTENDS Integers, Sequences, FiniteSets

VARIABLES
    archive,                    \* the remote collection COPERNICUS/S2_HARMONIZED
    cache,                      \* st.cache_resource memo of initialize_ee_session
    bodyRuns,                   \* executions of the body of initialize_ee_session
    tempFile,                   \* the NamedTemporaryFile(delete=False) is on disk
    cacheHit,                   \* this run's initialize_ee_session() was answered by the memo
    pc,                         \* position of the script run
    selected_city,              \* widget values
    start_date,
    end_date,
    cloud_filter,
    built,                      \* lines 94-107 have run: both collections are defined
    collection_size,            \* script locals; Unset until assigned
    unfiltered_collection_size,
    s2_composite,
    feature_list,
    df,
    mean_cloud_percentage,
    calls,                      \* remote round trips issued by this run, in order
    out,                        \* elements rendered by this run
    report,                     \* message of the st.error at line 205, or NoError
    uncaught                    \* message of an exception that left the script, or NoError

vars == << archive, cache, bodyRuns, tempFile, cacheHit, pc, selected_city,
           start_date, end_date, cloud_filter, built, collection_size,
           unfiltered_collection_size, s2_composite, feature_list, df,
           mean_cloud_percentage, calls, out, report, uncaught >>

(***************************************************************************)
(* Bounds of the model.                                                    *)
(***************************************************************************)
MaxScenes == 3                  \* scenes in the remote archive
MaxBodyRuns == 2                \* cap on the executions of the initializer's body

Cities == {"Rome, Italy", "Paris, France"}
Times == {1, 2}                 \* system:time_start values of the scenes
DateRanges == {<<1, 3>>, <<2, 3>>, <<1, 2>>}   \* [start, end) pairs of the date pickers
Clouds == {5, 15, 20}           \* CLOUDY_PIXEL_PERCENTAGE values of the scenes
Thresholds == {15, 20}          \* slider positions, within 1..100

DefaultCity == "Rome, Italy"
\* dates and timestamps are numbered 1, 2, 3 in calendar order
DefaultStart == 1
DefaultEnd == 3
DefaultCloudFilter == 15

Unset == 0 - 1
NoError == "none"
NoImage == [kind |-> "none"]

Scene == [city : Cities, time : Times, cloud : Clouds]

RECURSIVE SeqsUpTo(_, _)
SeqsUpTo(S, n) ==
    IF n = 0 THEN {<< >>}
    ELSE LET shorter == SeqsUpTo(S, n - 1)
         IN  shorter \cup {Append(s, x) : s \in {t \in shorter : Len(t) = n - 1}, x \in S}

Min(a, b) == IF a <= b THEN a ELSE b

RECURSIVE SumClouds(_)
SumClouds(s) == IF s = << >> THEN 0 ELSE Head(s).cloud + SumClouds(Tail(s))

(***************************************************************************)
(* Query Builder, lines 94-107.  The collections are lazy server-side      *)
(* queries; each is the archive restricted by its filters.                 *)
(***************************************************************************)
FilterDate(coll, start, end) ==
    SelectSeq(coll, LAMBDA s : start <= s.time /\ s.time < end)

FilterBounds(coll, city) ==
    SelectSeq(coll, LAMBDA s : s.city = city)

\* the inclusive comparison, filterMetadata(..., 'not_greater_than', value)
FilterMetadataNotGreaterThan(coll, value) ==
    SelectSeq(coll, LAMBDA s : s.cloud <= value)

FilterMetadataLessThan(coll, value) ==
    SelectSeq(coll, LAMBDA s : s.cloud < value)

s2_unfiltered_collection ==
    FilterBounds(FilterDate(archive, start_date, end_date), selected_city)

s2_composite_collection ==
    FilterMetadataLessThan(s2_unfiltered_collection, cloud_filter)

(***************************************************************************)
(* Remote Aggregator.                                                      *)
(***************************************************************************)
Size(coll) == Len(coll)

ToList(coll, count) == SubSeq(coll, 1, Min(count, Len(coll)))

\* the integer part of the mean cloudiness
AggregateMean(coll) == SumClouds(coll) \div Len(coll)

Median(coll) == [kind |-> "median", of |-> coll]

\* the list call bounded by the composite count instead
ListLimitComposite == collection_size

ListLimit == unfiltered_collection_size

(***************************************************************************)
(* Series Classifier, lines 128-145.                                       *)
(***************************************************************************)
DataForDf(features) ==
    [i \in 1..Len(features) |->
        [time |-> features[i].time, cloud |-> features[i].cloud]]

Permutations(n) ==
    {f \in [1..n -> 1..n] : \A i, j \in 1..n : i # j => f[i] # f[j]}

\* the frame left in the order of the list
NoSort(rows) == {rows}

\* DataFrame.sort_index() runs with its default kind='quicksort', which orders
\* the index and does not fix the relative order of rows with equal index
\* values: every ordering of the rows by time is a possible outcome.
SortIndex(rows) ==
    {[i \in 1..Len(rows) |-> rows[f[i]]] :
        f \in {g \in Permutations(Len(rows)) :
                 \A i \in 1..(Len(rows) - 1) : rows[g[i]].time <= rows[g[i + 1]].time}}

\* the strict comparison
ColorStrict(x, threshold) == IF x < threshold THEN "blue" ELSE "red"

Color(x, threshold) == IF x <= threshold THEN "blue" ELSE "red"

AddColor(rows, threshold) ==
    [i \in 1..Len(rows) |->
        [time |-> rows[i].time, cloud |-> rows[i].cloud,
         color |-> Color(rows[i].cloud, threshold)]]

(***************************************************************************)
(* Session initialization, lines 35-56.                                    *)
(***************************************************************************)
InitOutcomes == {"secrets", "decode", "credentials", "handshake", "ok"}

\* the temporary file is written at lines 45-47 and removed at line 51
TempFileLeft(outcome) == outcome \in {"credentials", "handshake"}

InitResult(outcome) == outcome = "ok"

\* a memo that keeps only a successful result
CacheStoreSuccessOnly(result) == IF result THEN "true" ELSE "none"

\* st.cache_resource memoizes the value the function returns, True or False
CacheStore(result) == IF result THEN "true" ELSE "false"

\* the test made on the unfiltered count instead
IsEmptyUnfiltered == unfiltered_collection_size = 0

\* line 114
IsEmptyComposite == collection_size = 0

\* the empty branch without its st.warning
BareMapOnly == {"bare_map"}

\* lines 115-119
EmptyBranchOutput == {"warning", "bare_map"}

(***************************************************************************)
(* Initial state: the process has started and no script run has begun.     *)
(***************************************************************************)
RunLocalsReset ==
    /\ built' = FALSE
    /\ cacheHit' = FALSE
    /\ collection_size' = Unset
    /\ unfiltered_collection_size' = Unset
    /\ s2_composite' = NoImage
    /\ feature_list' = << >>
    /\ df' = << >>
    /\ mean_cloud_percentage' = Unset
    /\ calls' = << >>
    /\ out' = {}
    /\ report' = NoError
    /\ uncaught' = NoError

Init ==
    /\ archive \in SeqsUpTo(Scene, MaxScenes)
    /\ cache = "none"
    /\ bodyRuns = 0
    /\ tempFile = FALSE
    /\ cacheHit = FALSE
    /\ pc = "idle"
    /\ selected_city = DefaultCity
    /\ start_date = DefaultStart
    /\ end_date = DefaultEnd
    /\ cloud_filter = DefaultCloudFilter
    /\ built = FALSE
    /\ collection_size = Unset
    /\ unfiltered_collection_size = Unset
    /\ s2_composite = NoImage
    /\ feature_list = << >>
    /\ df = << >>
    /\ mean_cloud_percentage = Unset
    /\ calls = << >>
    /\ out = {}
    /\ report = NoError
    /\ uncaught = NoError

RunEnded == pc \in {"done", "stopped", "crashed"}

(***************************************************************************)
(* A user interaction starts a fresh run of the script.  The widgets exist *)
(* only once a run has got past line 63, so their values can differ from   *)
(* the defaults only when the session was initialized.                     *)
(***************************************************************************)
Interact ==
    /\ pc = "idle" \/ RunEnded
    /\ pc' = "init"
    /\ IF cache = "true"
       THEN /\ selected_city' \in Cities
            /\ \E range \in DateRanges :
                   /\ start_date' = range[1]
                   /\ end_date' = range[2]
            /\ cloud_filter' \in Thresholds
       ELSE UNCHANGED << selected_city, start_date, end_date, cloud_filter >>
    /\ RunLocalsReset
    /\ UNCHANGED << archive, cache, bodyRuns, tempFile >>

\* lines 204-210: the except clause reports the message, the footer follows
Caught(message) ==
    /\ report' = message
    /\ out' = out \cup {"pipeline_error", "footer"}
    /\ pc' = "done"

\* an exception raised outside the try block leaves the script
Escaped(message) ==
    /\ uncaught' = message
    /\ out' = out \cup {"exception"}
    /\ pc' = "crashed"

\* lines 60-107 on a memo miss: the body of initialize_ee_session runs; on
\* success the widgets are read and the two collections are defined
InitializeBody ==
    /\ pc = "init"
    /\ cache = "none"
    /\ bodyRuns < MaxBodyRuns
    /\ \E outcome \in InitOutcomes :
        /\ tempFile' = (tempFile \/ TempFileLeft(outcome))
        /\ cache' = CacheStore(InitResult(outcome))
        /\ IF InitResult(outcome)
           THEN /\ out' = out \cup {"success"}
                /\ built' = TRUE
                /\ pc' = "count_composite"
           ELSE /\ out' = out \cup {"init_error"}
                /\ built' = built
                /\ pc' = "stopped"
    /\ bodyRuns' = bodyRuns + 1
    /\ UNCHANGED << archive, cacheHit, selected_city, start_date, end_date,
                    cloud_filter, collection_size, unfiltered_collection_size,
                    s2_composite, feature_list, df, mean_cloud_percentage,
                    calls, report, uncaught >>

\* lines 60-107 on a memo hit: the memoized value is returned
InitializeCached ==
    /\ pc = "init"
    /\ cache # "none"
    /\ cacheHit' = TRUE
    /\ IF cache = "true"
       THEN /\ out' = out \cup {"success"}
            /\ built' = TRUE
            /\ pc' = "count_composite"
       ELSE /\ out' = out
            /\ built' = built
            /\ pc' = "stopped"
    /\ UNCHANGED << archive, cache, bodyRuns, tempFile, selected_city,
                    start_date, end_date, cloud_filter, collection_size,
                    unfiltered_collection_size, s2_composite, feature_list, df,
                    mean_cloud_percentage, calls, report, uncaught >>

\* line 110, outside the try block
CountComposite ==
    /\ pc = "count_composite"
    /\ calls' = Append(calls, "size_composite")
    /\ \E ok \in BOOLEAN :
        IF ok
        THEN /\ collection_size' = Size(s2_composite_collection)
             /\ pc' = "count_unfiltered"
             /\ UNCHANGED << uncaught, out >>
        ELSE /\ Escaped("size_composite")
             /\ UNCHANGED collection_size
    /\ UNCHANGED << archive, cache, bodyRuns, tempFile, cacheHit, selected_city,
                    start_date, end_date, cloud_filter, built,
                    unfiltered_collection_size, s2_composite, feature_list, df,
                    mean_cloud_percentage, report >>

\* line 111, outside the try block
CountUnfiltered ==
    /\ pc = "count_unfiltered"
    /\ calls' = Append(calls, "size_unfiltered")
    /\ \E ok \in BOOLEAN :
        IF ok
        THEN /\ unfiltered_collection_size' = Size(s2_unfiltered_collection)
             /\ pc' = "branch"
             /\ UNCHANGED << uncaught, out >>
        ELSE /\ Escaped("size_unfiltered")
             /\ UNCHANGED unfiltered_collection_size
    /\ UNCHANGED << archive, cache, bodyRuns, tempFile, cacheHit, selected_city,
                    start_date, end_date, cloud_filter, built, collection_size,
                    s2_composite, feature_list, df, mean_cloud_percentage,
                    report >>

\* lines 114-120: warning, bare map, st.stop()
EmptyBranch ==
    /\ pc = "branch"
    /\ IsEmptyComposite
    /\ out' = out \cup EmptyBranchOutput
    /\ pc' = "stopped"
    /\ UNCHANGED << archive, cache, bodyRuns, tempFile, cacheHit, selected_city,
                    start_date, end_date, cloud_filter, built, collection_size,
                    unfiltered_collection_size, s2_composite, feature_list, df,
                    mean_cloud_percentage, calls, report, uncaught >>

\* lines 123-145: the median is requested, the scenes are listed, the frame
\* is built, sorted and coloured
ExtractSeries ==
    /\ pc = "branch"
    /\ ~IsEmptyComposite
    /\ s2_composite' = Median(s2_composite_collection)
    /\ calls' = Append(calls, "toList")
    /\ \E ok \in BOOLEAN :
        IF ok
        THEN LET features == ToList(s2_unfiltered_collection, ListLimit)
             IN  /\ feature_list' = features
                 /\ IF features = << >>
                    THEN \* an empty frame has no 'Acquisition Date' column
                         /\ Caught("KeyError")
                         /\ df' = df
                    ELSE /\ \E sorted \in SortIndex(DataForDf(features)) :
                               df' = AddColor(sorted, cloud_filter)
                         /\ pc' = "mean"
                         /\ UNCHANGED << report, out >>
        ELSE /\ Caught("toList")
             /\ UNCHANGED << feature_list, df >>
    /\ UNCHANGED << archive, cache, bodyRuns, tempFile, cacheHit, selected_city,
                    start_date, end_date, cloud_filter, built, collection_size,
                    unfiltered_collection_size, mean_cloud_percentage, uncaught >>

\* lines 148-179: the mean is fetched, then the analysis figures and the bar
\* chart are rendered
MeanAndChart ==
    /\ pc = "mean"
    /\ calls' = Append(calls, "aggregate_mean")
    /\ \E ok \in BOOLEAN :
        IF ok
        THEN /\ mean_cloud_percentage' = AggregateMean(s2_unfiltered_collection)
             /\ out' = out \cup {"analysis", "chart"}
             /\ pc' = "map"
             /\ UNCHANGED report
        ELSE /\ Caught("aggregate_mean")
             /\ UNCHANGED mean_cloud_percentage
    /\ UNCHANGED << archive, cache, bodyRuns, tempFile, cacheHit, selected_city,
                    start_date, end_date, cloud_filter, built, collection_size,
                    unfiltered_collection_size, s2_composite, feature_list, df,
                    uncaught >>

\* lines 183-210: Map.addLayer resolves the median composite on the service,
\* the map is rendered, then the footer
RenderComposite ==
    /\ pc = "map"
    /\ calls' = Append(calls, "getMapId")
    /\ \E ok \in BOOLEAN :
        IF ok
        THEN /\ out' = out \cup {"composite_map", "footer"}
             /\ pc' = "done"
             /\ UNCHANGED report
        ELSE Caught("getMapId")
    /\ UNCHANGED << archive, cache, bodyRuns, tempFile, cacheHit, selected_city,
                    start_date, end_date, cloud_filter, built, collection_size,
                    unfiltered_collection_size, s2_composite, feature_list, df,
                    mean_cloud_percentage, uncaught >>

Next ==
    \/ Interact
    \/ InitializeBody
    \/ InitializeCached
    \/ CountComposite
    \/ CountUnfiltered
    \/ EmptyBranch
    \/ ExtractSeries
    \/ MeanAndChart
    \/ RenderComposite

Spec == Init /\ [][Next]_vars

(***************************************************************************)
(* Properties.                                                             *)
(***************************************************************************)
CountIn(s, x) == Cardinality({i \in DOMAIN s : s[i] = x})

Rows(coll) == [i \in 1..Len(coll) |-> [time |-> coll[i].time, cloud |-> coll[i].cloud]]

Uncoloured(frame) ==
    [i \in 1..Len(frame) |-> [time |-> frame[i].time, cloud |-> frame[i].cloud]]

SeriesProduced == df # << >>

\* C1: whenever the fetched composite count is 0, no median reduction has
\* been requested and no list, mean or tile request has been issued by the
\* run, and a run that got past both counts ends stopped on the bare map;
\* a median reduction is requested only with a composite count above 0.
C1_EmptyCompositeNoMedian ==
    /\ collection_size = 0 =>
          /\ s2_composite = NoImage
          /\ \A i \in DOMAIN calls : calls[i] \in {"size_composite", "size_unfiltered"}
          /\ (RunEnded /\ unfiltered_collection_size # Unset =>
                 pc = "stopped" /\ "bare_map" \in out /\ "composite_map" \notin out)
    /\ s2_composite # NoImage => collection_size > 0

C1_Witness ==
    /\ pc = "stopped"
    /\ collection_size = 0
    /\ unfiltered_collection_size > 0
    /\ "bare_map" \in out

\* C2: every row of the classified series is blue (UNDER) exactly when its
\* cloudiness is at most the threshold, and red (OVER) otherwise.
C2_LabelInclusive ==
    \A i \in DOMAIN df :
        /\ df[i].color \in {"blue", "red"}
        /\ df[i].color = "blue" <=> df[i].cloud <= cloud_filter

C2_Witness ==
    /\ \E i \in DOMAIN df : df[i].cloud = cloud_filter /\ df[i].color = "blue"
    /\ \E i \in DOMAIN df : df[i].cloud > cloud_filter /\ df[i].color = "red"
    /\ \E i \in DOMAIN df : df[i].cloud < cloud_filter /\ df[i].color = "blue"

ScenarioA ==
    /\ cloud_filter = 15
    /\ SeriesProduced
    /\ Len(feature_list) = 3
    /\ feature_list[1].cloud = 5
    /\ feature_list[2].cloud = 15
    /\ feature_list[3].cloud = 20

\* C3: with threshold 15 and scenes of cloudiness [5, 15, 20], the scenes of
\* cloudiness 5 and 15 are labelled blue, the one of 20 red, and the median
\* composite is taken over the first two scenes, the ones labelled blue.
C3_ScenarioACompositeIsUnder ==
    ScenarioA =>
        /\ \A i \in DOMAIN df : df[i].color = "blue" <=> df[i].cloud \in {5, 15}
        /\ s2_composite = Median(SubSeq(feature_list, 1, 2))

\* C4: once the queries are built, the composite view holds each scene of the
\* unfiltered view whose cloudiness is strictly below the threshold, as often
\* as the unfiltered view holds it, and no other scene; the fetched composite
\* count and the median request are over exactly these scenes.
C4_CompositeIsStrictSubset ==
    built =>
        LET unf == s2_unfiltered_collection
            comp == s2_composite_collection
        IN  /\ \A i \in DOMAIN unf :
                  CountIn(comp, unf[i]) =
                      IF unf[i].cloud < cloud_filter THEN CountIn(unf, unf[i]) ELSE 0
            /\ \A i \in DOMAIN comp : \E j \in DOMAIN unf : comp[i] = unf[j]
            /\ collection_size # Unset =>
                  collection_size =
                      Cardinality({i \in DOMAIN unf : unf[i].cloud < cloud_filter})
            /\ s2_composite # NoImage =>
                  /\ Len(s2_composite.of) = collection_size
                  /\ \A i \in DOMAIN s2_composite.of :
                        /\ s2_composite.of[i].cloud < cloud_filter
                        /\ \E j \in DOMAIN unf : s2_composite.of[i] = unf[j]

C4_Witness ==
    /\ s2_composite # NoImage
    /\ \E i \in DOMAIN s2_unfiltered_collection :
          s2_unfiltered_collection[i].cloud = cloud_filter
    /\ Len(s2_composite.of) < Len(s2_unfiltered_collection)
    /\ Len(s2_unfiltered_collection) < Len(archive)

\* C5: a classified series has as many rows as the fetched unfiltered count
\* and holds every scene of the unfiltered view exactly as often as the view
\* does.
C5_SeriesComplete ==
    SeriesProduced =>
        LET unf == Rows(s2_unfiltered_collection)
            series == Uncoloured(df)
        IN  /\ Len(df) = unfiltered_collection_size
            /\ Len(df) = Len(unf)
            /\ \A i \in DOMAIN unf : CountIn(series, unf[i]) = CountIn(unf, unf[i])

C5_Witness ==
    /\ SeriesProduced
    /\ Len(df) >= 2
    /\ collection_size < Len(df)
    /\ df[1] # df[2]

StableOrder(rows) ==
    CHOOSE sorted \in SortIndex(rows) :
        \E f \in Permutations(Len(rows)) :
            /\ \A i \in DOMAIN rows : sorted[i] = rows[f[i]]
            /\ \A i, j \in DOMAIN rows :
                  i < j /\ rows[f[i]].time = rows[f[j]].time => f[i] < f[j]

\* C6 as stated: the series is the stable sort of the listed scenes by
\* timestamp, scenes of equal timestamp keeping the order of the list.
C6_StableSorted ==
    SeriesProduced => Uncoloured(df) = StableOrder(DataForDf(feature_list))

\* C6 amended: the series is ordered by non-decreasing timestamp; the order
\* among scenes of equal timestamp is not fixed.
C6_SortedByTime ==
    \A i, j \in DOMAIN df : i < j => df[i].time <= df[j].time

C6_Witness ==
    /\ SeriesProduced
    /\ Len(feature_list) >= 2
    /\ feature_list[1].time > feature_list[2].time
    /\ df[1].time < df[Len(df)].time

\* C7: the body of the session initializer runs at most once in the process;
\* once it has failed, the failing run reports the error and stops, and no
\* run builds a query or issues a remote call.
C7_InitOnceFailureTerminal ==
    /\ bodyRuns <= 1
    /\ cache = "false" =>
          /\ pc \in {"init", "stopped"}
          /\ ~built
          /\ calls = << >>
          /\ (pc = "stopped" /\ ~cacheHit => "init_error" \in out)

C7_Witness ==
    /\ cache = "false"
    /\ cacheHit
    /\ pc = "stopped"

FailedCall == IF uncaught # NoError THEN uncaught ELSE report

\* C8: when a remote call of a run has failed and the run has ended, the
\* error report of line 205 carries that call's message, neither the chart
\* nor the composite has been rendered, and the call was issued once.
C8_RemoteFailureReported ==
    RunEnded /\ FailedCall # NoError =>
        /\ report = FailedCall
        /\ "pipeline_error" \in out
        /\ "chart" \notin out
        /\ "composite_map" \notin out
        /\ CountIn(calls, FailedCall) = 1

\* C9 as stated: a run that fetched an unfiltered count of 0 ends with the
\* bare map, no chart and no warning.
C9_UnfilteredEmptyNoWarning ==
    RunEnded /\ unfiltered_collection_size = 0 =>
        /\ "bare_map" \in out
        /\ "chart" \notin out
        /\ "warning" \notin out

\* C9 amended: a run that fetched an unfiltered count of 0 ends stopped with
\* the bare map, no chart, and the warning that no image meets the filter.
C9_UnfilteredEmptyWarns ==
    RunEnded /\ unfiltered_collection_size = 0 =>
        /\ pc = "stopped"
        /\ "bare_map" \in out
        /\ "chart" \notin out
        /\ "composite_map" \notin out
        /\ "warning" \in out

C9_Witness ==
    /\ pc = "stopped"
    /\ unfiltered_collection_size = 0
    /\ archive # << >>
    /\ "warning" \in out

\* C10: once the session initializer has returned, the temporary credential
\* file is no longer on disk.
C10_TempFileDeleted ==
    cache # "none" => ~tempFile

====
